---- MODULE Spec2Model ----
(***************************************************************************)
(* Trading Code Risk Analyzer (src/app.py): the Streamlit script that      *)
(* sends code to an Ollama endpoint, validates and normalises the reply,   *)
(* memoises the analysis (st.cache_data, ttl 3600) and keeps the last      *)
(* analysis and its weighted overall score in the session state.           *)
(*                                                                         *)
(* Numbers.  A rating is an integer.  The overall score is computed in     *)
(* IEEE-754 binary64, as Python does: a double d >= 0 below 128 whose      *)
(* unit in the last place is at least 2^-55 is the natural number          *)
(* d * 2^55, written as three limbs <<l0, l1, l2>> of 20 bits, least       *)
(* significant first (the top limb is not reduced).  A score rounded to    *)
(* one decimal is written in tenths: 765 is the float 76.5.                *)
(***************************************************************************)
EXTENDS Integers, Sequences, FiniteSets, TLC

\* ------------------------------------------------------------------ bounds

\* Requests (clicks on "Analyze Code") a behaviour of Spec may make.
MaxRequests == 2
\* The clock of Spec stops at MaxTime seconds.
MaxTime == 3600
\* Upper limit of the number of "model is loading" answers the endpoint
\* gives before it answers a request.
MaxWarmups == 2

\* ------------------------------------------------------- binary64 numbers

Base == 2^20
MantissaTop == 2^13       \* 2^53 = MantissaTop * Base^2

\* x + y, limb by limb with carry.
DAdd(x, y) ==
    LET s0 == x[1] + y[1]
        s1 == x[2] + y[2] + (s0 \div Base)
        s2 == x[3] + y[3] + (s1 \div Base)
    IN  <<s0 % Base, s1 % Base, s2>>

\* x * k for a small natural k.
DMulSmall(x, k) ==
    LET p0 == x[1] * k
        p1 == x[2] * k + (p0 \div Base)
        p2 == x[3] * k + (p1 \div Base)
    IN  <<p0 % Base, p1 % Base, p2>>

\* How many low bits of a value with top limb t fall outside 53 significant bits.
RECURSIVE ExcessBits(_)
ExcessBits(t) == IF t < MantissaTop THEN 0 ELSE 1 + ExcessBits(t \div 2)

\* Round to nearest double, ties to even: the result of every float operation.
RoundDouble(x) ==
    LET s    == ExcessBits(x[3])
        p    == 2^s
        r    == x[1] % p
        odd  == (x[1] \div p) % 2 = 1
        up   == s > 0 /\ (2 * r > p \/ (2 * r = p /\ odd))
        l0   == x[1] - r + (IF up THEN p ELSE 0)
    IN  DAdd(<<l0, x[2], x[3]>>, <<0, 0, 0>>)

\* round(x, 1), in tenths: the decimal nearest to the exact binary value,
\* an exact half going to the even digit (float.__round__).
RoundTenths(x) ==
    LET m    == DMulSmall(x, 10)
        q    == m[3] \div 2^15
        h    == m[3] % 2^15
        low  == m[1] > 0 \/ m[2] > 0
        up   == h > 2^14 \/ (h = 2^14 /\ (low \/ q % 2 = 1))
    IN  IF up THEN q + 1 ELSE q

\* -------------------------------------------------------------- the rubric

Metrics == <<"data_accuracy", "model_efficiency", "problem_solving",
             "logical_structure", "risk_profile">>
MetricSet == {Metrics[i] : i \in 1..Len(Metrics)}

\* Mutant of weights: risk_profile weighted 0.2 like its neighbours.
weights_risk_fifth ==
    [data_accuracy     |-> <<0, 0, 8192>>,
     model_efficiency  |-> <<629146, 629145, 6553>>,
     problem_solving   |-> <<629146, 629145, 6553>>,
     logical_structure |-> <<629146, 629145, 6553>>,
     risk_profile      |-> <<629146, 629145, 6553>>]

\* The doubles nearest to 0.25, 0.2, 0.2, 0.2 and 0.15, in units of 2^-55.
weights == [data_accuracy     |-> <<0, 0, 8192>>,
            model_efficiency  |-> <<629146, 629145, 6553>>,
            problem_solving   |-> <<629146, 629145, 6553>>,
            logical_structure |-> <<629146, 629145, 6553>>,
            risk_profile      |-> <<209715, 209715, 4915>>]

\* ratings[field] * weights[field]: one float multiplication.
Term(m, field) == RoundDouble(DMulSmall(weights[field], m[field]))

\* sum(...) as CPython up to 3.11 adds floats: left to right, each partial
\* sum rounded.
RECURSIVE NaiveSum(_, _)
NaiveSum(m, n) ==
    IF n = 0 THEN <<0, 0, 0>>
    ELSE RoundDouble(DAdd(NaiveSum(m, n - 1), Term(m, Metrics[n])))

\* sum(...) as CPython from 3.12 adds floats: compensated (Neumaier)
\* summation, which for these five terms returns the exact sum rounded once.
RECURSIVE ExactSum(_, _)
ExactSum(m, n) ==
    IF n = 0 THEN <<0, 0, 0>>
    ELSE DAdd(ExactSum(m, n - 1), Term(m, Metrics[n]))

PySums == {"naive", "compensated"}

PySum(m, py) ==
    IF py = "naive" THEN NaiveSum(m, Len(Metrics))
    ELSE RoundDouble(ExactSum(m, Len(Metrics)))

\* ---------------------------------------------------------- JSON values

\* A JSON value in a ratings field, as json.loads hands it to Python:
\*   int n, bool (v = 1 for true), float (v in tenths; "inf" and "nan" are the
\*   floats json.loads makes of 1e999 / Infinity and NaN), a string that is
\*   an integer literal ("85": str_int), any other string ("n/a": str_other),
\*   null, a list; "absent" marks a key the object does not have.
JInt(n)     == [t |-> "int", v |-> n]
JFloat(n10) == [t |-> "float", v |-> n10]
JStrInt(n)  == [t |-> "str_int", v |-> n]
JStrOther   == [t |-> "str_other", v |-> 0]
JNull       == [t |-> "null", v |-> 0]
JTrue       == [t |-> "bool", v |-> 1]
JInf        == [t |-> "inf", v |-> 0]
JNaN        == [t |-> "nan", v |-> 0]
JList       == [t |-> "list", v |-> 0]
Absent      == [t |-> "absent", v |-> 0]

NoExc == "none"

\* int(x): the integer, or the exception Python raises.
PyInt(x) ==
    CASE x.t \in {"int", "bool", "str_int"} -> [exc |-> NoExc, v |-> x.v]
      [] x.t = "float" ->
            [exc |-> NoExc,
             v |-> IF x.v >= 0 THEN x.v \div 10 ELSE -((-x.v) \div 10)]
      [] x.t = "inf" -> [exc |-> "OverflowError", v |-> 0]
      [] x.t \in {"nan", "str_other"} -> [exc |-> "ValueError", v |-> 0]
      [] OTHER -> [exc |-> "TypeError", v |-> 0]

Min(a, b) == IF a < b THEN a ELSE b
Max(a, b) == IF a > b THEN a ELSE b

\* ------------------------------------------------------------ the analysis

\* Mutant of Required: only the two fields the display cannot do without.
RequiredMinimum == <<"description", "ratings">>

\* required, line 178.
Required == <<"description", "pros", "cons", "ratings", "risk_profile_classification">>

\* The top-level keys of the JSON structure the prompt asks for.
PromptFields == {"description", "ratings", "pros", "cons", "risk_profile_classification"}

\* The value under "ratings": an object (kind "dict", m its entries) or a
\* JSON value of another kind.
NoEntries == [f \in MetricSet |-> Absent]
Dict(m) == [kind |-> "dict", m |-> m]
NonDict(k) == [kind |-> k, m |-> NoEntries]

\* The value under "risk_profile_classification": an object whose "type" and
\* "justification" are "given", "absent" or (once defaulted) "default"; or
\* null, a string (str), a string that holds both words (str_both).
Rpc(k, ty, ju) == [kind |-> k, type |-> ty, justification |-> ju]

\* A parsed payload: the top-level keys it has, the values the pipeline
\* reads, and whether its description text holds a fenced ```json block.
Analysis(fields, ratings, rpc, desc) ==
    [fields |-> fields, ratings |-> ratings, rpc |-> rpc, description |-> desc]

BlankAnalysis == Analysis({}, NonDict("null"), Rpc("null", "absent", "absent"), "plain")
None == [some |-> FALSE, val |-> BlankAnalysis]
Some(a) == [some |-> TRUE, val |-> a]

\* ------------------------------------------------------- normalize_scores

\* One pass of the loop body: int(), clamp, or the default of 50.
NormalizeMetric(x) ==
    LET c == PyInt(x)
    IN  IF c.exc = NoExc THEN [exc |-> NoExc, v |-> JInt(Max(0, Min(100, c.v)))]
        ELSE IF c.exc \in {"ValueError", "TypeError"} THEN [exc |-> NoExc, v |-> JInt(50)]
        ELSE [exc |-> c.exc, v |-> x]

\* The loop over the keys of the ratings object, in their order; it stops at
\* the first exception the except clause does not name.
RECURSIVE NormalizeLoop(_, _)
NormalizeLoop(m, n) ==
    IF n = 0 THEN [exc |-> NoExc, m |-> m]
    ELSE LET before == NormalizeLoop(m, n - 1)
             f      == Metrics[n]
         IN  IF before.exc # NoExc \/ m[f] = Absent THEN before
             ELSE LET r == NormalizeMetric(m[f])
                  IN  IF r.exc # NoExc THEN [exc |-> r.exc, m |-> before.m]
                      ELSE [exc |-> NoExc, m |-> [before.m EXCEPT ![f] = r.v]]

normalize_scores(analysis) ==
    IF "ratings" \notin analysis.fields THEN [exc |-> NoExc, val |-> analysis]
    ELSE CASE analysis.ratings.kind = "dict" ->
                LET r == NormalizeLoop(analysis.ratings.m, Len(Metrics))
                IN  [exc |-> r.exc, val |-> [analysis EXCEPT !.ratings = Dict(r.m)]]
           \* an empty list or string: the loop body never runs
           [] analysis.ratings.kind = "empty_list" -> [exc |-> NoExc, val |-> analysis]
           \* null or a number is not iterable; a string's items cannot be
           \* indexed by a character, nor assigned in the except clause
           [] OTHER -> [exc |-> "TypeError", val |-> analysis]

\* ------------------------------------------------ calculate_overall_score

\* The integer scores of a ratings object that holds all five metrics.
Scores(m) == [f \in MetricSet |-> m[f].v]

\* round(sum(ratings[field] * weights[field] for field in weights), 1), in
\* tenths, under the interpreter's float summation py; or the exception of
\* ratings[field].
calculate_overall_score(ratings, py) ==
    IF ratings.kind # "dict" THEN [exc |-> "TypeError", v |-> 0]
    ELSE IF \E f \in MetricSet : ratings.m[f] = Absent THEN [exc |-> "KeyError", v |-> 0]
    ELSE [exc |-> NoExc, v |-> RoundTenths(PySum(Scores(ratings.m), py))]

\* ------------------------------------------------------------ the endpoint

\* What one run of the curl command yields:
\*   curl    "ok" (exit status 0), "error" (another status), "timeout"
\*           (subprocess.run raises TimeoutExpired after 30 s);
\*   stdout  "not_json", or the JSON it holds: a "scalar", a "list", an
\*           "error_obj" ({"error": ...}, what Ollama sends with a non-success
\*           status or while the model loads; curl -s still exits 0), an
\*           object without "response" that is itself the payload ("direct"),
\*           or an object with the model's text under "response";
\*   tokens  that text, as a sequence of: "doc" (a JSON document), "ws"
\*           (white space), "prose", "fence_open" (```json), "fence_close";
\*   doc     the JSON document: an "object" (obj its content), an "array"
\*           or "null".
Outcome(curl, stdout, tokens, doc) ==
    [curl |-> curl, stdout |-> stdout, tokens |-> tokens, doc |-> doc]

Object(a) == [kind |-> "object", obj |-> a]
NonObject(k) == [kind |-> k, obj |-> BlankAnalysis]

\* Mutant of json_loads: the document is found wherever it stands in the text.
json_loads_anywhere(tokens, doc) ==
    IF \E i \in 1..Len(tokens) : tokens[i] = "doc"
    THEN [exc |-> NoExc, val |-> doc]
    ELSE [exc |-> "JSONDecodeError", val |-> [kind |-> "null", obj |-> BlankAnalysis]]

\* json.loads of a text: the document when the text is one document, with
\* white space around it at most.
json_loads(tokens, doc) ==
    IF SelectSeq(tokens, LAMBDA t : t # "ws") = <<"doc">>
    THEN [exc |-> NoExc, val |-> doc]
    ELSE [exc |-> "JSONDecodeError", val |-> NonObject("null")]

\* ------------------------------------------- analyze_code_with_ollama body

\* except (json.JSONDecodeError, ValueError, KeyError) is the inner handler,
\* except Exception the outer one; both return None.
Handler(exc) ==
    IF exc \in {"JSONDecodeError", "ValueError", "KeyError"} THEN "inner" ELSE "outer"

Returned(a) == [ret |-> Some(a), exc |-> NoExc, handler |-> "none"]
Failed(exc, handler) == [ret |-> None, exc |-> exc, handler |-> handler]

\* "Ensure risk profile classification exists".
EnsureClassification(a) ==
    CASE a.rpc.kind = "dict" ->
            Returned([a EXCEPT
                !.rpc.type = IF @ = "absent" THEN "default" ELSE @,
                !.rpc.justification = IF @ = "absent" THEN "default" ELSE @])
      \* a string that holds both words passes both tests untouched
      [] a.rpc.kind = "str_both" -> Returned(a)
      \* 'type' not in None, or item assignment on a string
      [] OTHER -> Failed("TypeError", "outer")

\* Lines 177-191 on the parsed document.
Validate(doc) ==
    CASE doc.kind = "null" -> Failed("TypeError", "outer")
      [] doc.kind = "array" -> Failed("ValueError", "inner")
      [] OTHER ->
            IF \E i \in 1..Len(Required) : Required[i] \notin doc.obj.fields
            THEN Failed("ValueError", "inner")
            ELSE LET n == normalize_scores(doc.obj)
                 IN  IF n.exc # NoExc THEN Failed(n.exc, Handler(n.exc))
                     ELSE EnsureClassification(n.val)

\* Lines 164-200 on what one run of curl yields.
Body(o) ==
    CASE o.curl = "timeout" -> Failed("TimeoutExpired", "outer")
      [] o.curl = "error" -> Failed("Exception", "outer")
      [] o.stdout = "not_json" -> Failed("JSONDecodeError", "outer")
      \* "response" in 5
      [] o.stdout = "scalar" -> Failed("TypeError", "outer")
      [] o.stdout = "list" -> Validate(NonObject("array"))
      [] o.stdout = "error_obj" -> Validate(Object(BlankAnalysis))
      [] o.stdout = "direct" -> Validate(o.doc)
      [] OTHER ->
            LET parsed == json_loads(o.tokens, o.doc)
            IN  IF parsed.exc # NoExc THEN Failed(parsed.exc, "inner")
                ELSE Validate(parsed.val)

\* The answer of the endpoint while the model loads.
WarmupOutcome == Outcome("ok", "error_obj", <<>>, NonObject("null"))

\* A request meets an endpoint that answers `warmups` times with the warm-up
\* answer and then with `reply`.  The function runs curl once.
Attempts(input) == 1

\* Mutant of FirstAnswer: the call goes on until the endpoint answers.
AnswerAfterWarmup(input) == input.reply

FirstAnswer(input) == IF input.warmups > 0 THEN WarmupOutcome ELSE input.reply

analyze_uncached(input) == Body(FirstAnswer(input))

\* ------------------------------------------------------------ st.cache_data

TTL == 3600

NoEntry == [present |-> FALSE, value |-> None, created |-> 0]
Entry(value, t) == [present |-> TRUE, value |-> value, created |-> t]

\* Mutant of Fresh: the entry is dropped after half the ttl.
FreshHalfTTL(e, t) == e.present /\ t < e.created + TTL \div 2

\* An entry is served until ttl seconds after it was stored.
Fresh(e, t) == e.present /\ t < e.created + TTL

\* What the decorator stores of a call that returned: its return value.
Stored(result, t) == Entry(result.ret, t)

\* ------------------------------------------------------------------ inputs

R5(a, b, c, d, e) ==
    [data_accuracy |-> a, model_efficiency |-> b, problem_solving |-> c,
     logical_structure |-> d, risk_profile |-> e]

GoodRpc == Rpc("dict", "given", "given")
Good(ratings) == Analysis(PromptFields, ratings, GoodRpc, "plain")

\* The ratings of the replies Spec draws from.
ScenarioA == Dict(R5(JInt(90), JInt(70), JInt(70), JInt(70), JInt(80)))
ReplyRatings ==
    { ScenarioA,
      Dict(R5(JInt(90), JInt(70), JInt(70), JInt(70), JInt(150))),
      Dict(R5(JInt(90), JInt(70), JInt(70), JInt(70), JStrOther)),
      Dict(R5(JInt(-5), JStrInt(85), JFloat(857), JNull, JInt(80))),
      Dict(R5(JInt(90), JInt(70), JInt(70), JInt(70), Absent)),
      Dict(R5(JInt(90), JInt(70), JInt(70), JInt(70), JInf)),
      Dict(R5(JInt(65), JInt(47), JInt(69), JInt(56), JInt(64))),
      NonDict("null"), NonDict("empty_list"), NonDict("str") }

ReplyRpcs ==
    { Rpc("dict", "absent", "given"), Rpc("dict", "absent", "absent"),
      Rpc("null", "absent", "absent"), Rpc("str", "absent", "absent"),
      Rpc("str_both", "absent", "absent") }

\* The payloads: one part of a good payload varied at a time.
Payloads ==
    {Good(r) : r \in ReplyRatings}
    \cup {Analysis(PromptFields \ {f}, ScenarioA, GoodRpc, "plain") : f \in PromptFields}
    \cup {Analysis(PromptFields, ScenarioA, c, "plain") : c \in ReplyRpcs}
    \cup {Analysis(PromptFields, ScenarioA, GoodRpc, "decoy_fence")}

\* The texts around a document.
Wrappings ==
    { <<"ws", "doc", "ws">>, <<"prose", "doc", "prose">>,
      <<"fence_open", "doc", "fence_close">>,
      <<"prose", "fence_open", "doc", "fence_close">> }

Replies ==
    {Outcome("ok", "response", <<"doc">>, Object(a)) : a \in Payloads}
    \cup {Outcome("ok", "response", w, Object(a)) :
             w \in Wrappings,
             a \in {Good(ScenarioA), Analysis(PromptFields \ {"ratings"}, ScenarioA, GoodRpc, "plain")}}
    \cup {Outcome("ok", "response", <<"doc">>, NonObject(k)) : k \in {"array", "null"}}
    \cup {Outcome("ok", "response", t, NonObject("null")) : t \in {<<>>, <<"prose">>}}
    \cup {Outcome("ok", "direct", <<>>, Object(Good(ScenarioA)))}
    \cup {Outcome("ok", k, <<>>, NonObject("null")) :
             k \in {"not_json", "scalar", "list", "error_obj"}}
    \cup {Outcome(c, "not_json", <<>>, NonObject("null")) : c \in {"error", "timeout"}}

GoodReply == Outcome("ok", "response", <<"doc">>, Object(Good(ScenarioA)))

\* What a request meets: the endpoint answers at once, or is loading and
\* would give the good reply after `warmups` warm-up answers.
Inputs ==
    {[warmups |-> 0, reply |-> o] : o \in Replies}
    \cup {[warmups |-> k, reply |-> GoodReply] : k \in 1..MaxWarmups}

NoInput == [warmups |-> 0, reply |-> Outcome("error", "not_json", <<>>, NonObject("null"))]

\* The codes a user submits; "" stands for a text that strips to nothing.
Codes == {"code_a", "code_b"}

\* -------------------------------------------------------------------- state

VARIABLES
    pySum,          \* the interpreter's float summation (fixed by the build)
    cache,          \* st.cache_data of analyze_code_with_ollama: code -> entry
    now,            \* seconds on the cache's clock
    analysis,       \* st.session_state.analysis
    overall_score,  \* st.session_state.overall_score, in tenths
    requests,       \* clicks on "Analyze Code" so far
    last,           \* the last click: what it met and how it ended
    probe           \* a call of a pure function: argument and result

vars == <<pySum, cache, now, analysis, overall_score, requests, last, probe>>

NoScore == [some |-> FALSE, v |-> 0]
Score(v) == [some |-> TRUE, v |-> v]

\* kind: "none" (no click yet), "blank", "hit" (served by the cache) or "miss";
\* stored: when the cache entry the click used or made was stored;
\* input: what the endpoint held for the click;
\* attempts: runs of curl; ret: what analyze_code_with_ollama returned;
\* exc: the exception caught inside it; raised: the exception that left the
\* button handler.
Click(kind, code, stored, input, attempts, ret, exc, raised) ==
    [kind |-> kind, code |-> code, stored |-> stored, input |-> input,
     attempts |-> attempts, ret |-> ret, exc |-> exc, raised |-> raised]

NoClick == Click("none", "", 0, NoInput, 0, None, NoExc, NoExc)

NoProbe == [fn |-> "none", arg |-> BlankAnalysis, done |-> FALSE,
            exc |-> NoExc, val |-> BlankAnalysis, score |-> 0]

Init ==
    /\ pySum \in PySums
    /\ cache = [c \in Codes |-> NoEntry]
    /\ now = 0
    /\ analysis = None
    /\ overall_score = NoScore
    /\ requests = 0
    /\ last = NoClick
    /\ probe = NoProbe

\* ------------------------------------------------- the "Analyze Code" button

\* Lines 227-232 once analyze_code_with_ollama has returned `result`.
Finish(kind, code, stored, input, attempts, result) ==
    IF ~result.ret.some
    THEN /\ UNCHANGED <<analysis, overall_score>>
         /\ last' = Click(kind, code, stored, input, attempts, result.ret, result.exc, NoExc)
    ELSE LET sc == calculate_overall_score(result.ret.val.ratings, pySum)
         IN  /\ analysis' = result.ret
             /\ overall_score' = IF sc.exc = NoExc THEN Score(sc.v) ELSE overall_score
             /\ last' = Click(kind, code, stored, input, attempts, result.ret, result.exc, sc.exc)

\* code.strip() is empty: an error message, nothing else.
ClickBlank ==
    /\ requests < MaxRequests
    /\ requests' = requests + 1
    /\ last' = Click("blank", "", 0, NoInput, 0, None, NoExc, NoExc)
    /\ UNCHANGED <<pySum, cache, now, analysis, overall_score, probe>>

\* The cache holds a fresh entry for the code: the function body does not run.
ClickHit(code) ==
    /\ requests < MaxRequests
    /\ Fresh(cache[code], now)
    /\ requests' = requests + 1
    /\ Finish("hit", code, cache[code].created, NoInput, 0,
              [ret |-> cache[code].value, exc |-> NoExc, handler |-> "none"])
    /\ UNCHANGED <<pySum, cache, now, probe>>

\* No fresh entry: the body runs and what it returns is stored.
ClickMiss(code, input) ==
    /\ requests < MaxRequests
    /\ ~Fresh(cache[code], now)
    /\ requests' = requests + 1
    /\ LET result == analyze_uncached(input)
       IN  /\ cache' = [cache EXCEPT ![code] = Stored(result, now)]
           /\ Finish("miss", code, now, input, Attempts(input), result)
    /\ UNCHANGED <<pySum, now, probe>>

\* Time passes, half a ttl at a time.
Tick ==
    /\ now + TTL \div 2 <= MaxTime
    /\ now' = now + TTL \div 2
    /\ UNCHANGED <<pySum, cache, analysis, overall_score, requests, last, probe>>

Next ==
    \/ ClickBlank
    \/ \E code \in Codes : ClickHit(code)
    \/ \E code \in Codes, input \in Inputs : ClickMiss(code, input)
    \/ Tick

Spec == Init /\ [][Next]_vars

\* ------------------------------------------- normalize_scores, on its own

\* What a model may put under one rating key.
RatingValues ==
    { JInt(-5), JInt(0), JInt(42), JInt(100), JInt(150), JInt(101), JInt(-1),
      JStrOther, JStrInt(85), JStrInt(250), JNull, JFloat(857), JFloat(-5),
      JInf, JNaN, JTrue, JList, Absent }

FewValues == {JInt(-5), JInt(42), JInt(150), JStrOther, JNull, Absent}

NormalizeInputs ==
    {Good(Dict(m)) : m \in [MetricSet -> FewValues]}
    \cup {Good(Dict([ScenarioA.m EXCEPT ![f] = x])) : f \in MetricSet, x \in RatingValues}
    \cup {Good(NonDict(k)) : k \in {"null", "empty_list", "str"}}
    \cup {Analysis(PromptFields \ {"ratings"}, ScenarioA, GoodRpc, "plain")}

InitNormalize ==
    /\ pySum = "naive"
    /\ cache = [c \in Codes |-> NoEntry]
    /\ now = 0
    /\ analysis = None
    /\ overall_score = NoScore
    /\ requests = 0
    /\ last = NoClick
    /\ \E a \in NormalizeInputs :
          probe = [NoProbe EXCEPT !.fn = "normalize_scores", !.arg = a]

ApplyNormalize ==
    /\ probe.fn = "normalize_scores" /\ ~probe.done
    /\ LET r == normalize_scores(probe.arg)
       IN  probe' = [probe EXCEPT !.done = TRUE, !.exc = r.exc, !.val = r.val]
    /\ UNCHANGED <<pySum, cache, now, analysis, overall_score, requests, last>>

NextNormalize == ApplyNormalize

SpecNormalize == InitNormalize /\ [][NextNormalize]_vars

\* --------------------------------------- calculate_overall_score, on its own

\* Rating values of valid rating sets.
ScoreInputs == {0, 1, 47, 50, 70, 80, 90, 100}

InitScore ==
    /\ pySum \in PySums
    /\ cache = [c \in Codes |-> NoEntry]
    /\ now = 0
    /\ analysis = None
    /\ overall_score = NoScore
    /\ requests = 0
    /\ last = NoClick
    /\ \E m \in [MetricSet -> {JInt(n) : n \in ScoreInputs}] :
          probe = [NoProbe EXCEPT !.fn = "calculate_overall_score", !.arg = Good(Dict(m))]

ApplyScore ==
    /\ probe.fn = "calculate_overall_score" /\ ~probe.done
    /\ LET r == calculate_overall_score(probe.arg.ratings, pySum)
       IN  probe' = [probe EXCEPT !.done = TRUE, !.exc = r.exc, !.score = r.v]
    /\ UNCHANGED <<pySum, cache, now, analysis, overall_score, requests, last>>

NextScore == ApplyScore

SpecScore == InitScore /\ [][NextScore]_vars

\* -------------------------------------------------------------- properties

\* The last click asked for an analysis (the code was not blank).
Asked == last.kind \in {"hit", "miss"}

\* What the single run of curl of the last click yielded.
Seen == IF last.input.warmups > 0 THEN WarmupOutcome ELSE last.input.reply

\* The last click ran the body on a model text that parsed, as a whole, to
\* an object.
SawObject ==
    /\ last.kind = "miss"
    /\ Seen.curl = "ok" /\ Seen.stdout = "response"
    /\ Seen.tokens = <<"doc">> /\ Seen.doc.kind = "object"

Unparsable == {"str_other", "null", "nan", "inf", "list"}

\* C1: when analyze_code_with_ollama returns a result, its ratings hold all
\* five metrics, each an integer in [0,100], and a metric the reply left out
\* or gave unparsably is 50.
C1_RatingsComplete ==
    Asked /\ last.ret.some =>
        /\ last.ret.val.ratings.kind = "dict"
        /\ \A f \in MetricSet :
              /\ last.ret.val.ratings.m[f].t = "int"
              /\ last.ret.val.ratings.m[f].v \in 0..100
        /\ SawObject =>
              \A f \in MetricSet :
                 Seen.doc.obj.ratings.m[f].t \in Unparsable \cup {"absent"}
                    => last.ret.val.ratings.m[f] = JInt(50)

\* C2: normalize_scores maps every rating value present: an integer in
\* [0,100] to itself, one above 100 to 100, one below 0 to 0, and a value
\* int() cannot coerce to 50.
C2_NormalizeMapping ==
    probe.done /\ "ratings" \in probe.arg.fields /\ probe.arg.ratings.kind = "dict" =>
        /\ probe.exc = NoExc
        /\ \A f \in MetricSet :
              LET x == probe.arg.ratings.m[f]
                  y == probe.val.ratings.m[f]
              IN  /\ x.t = "int" /\ x.v \in 0..100 => y = x
                  /\ x.t = "int" /\ x.v > 100 => y = JInt(100)
                  /\ x.t = "int" /\ x.v < 0 => y = JInt(0)
                  /\ x.t \in Unparsable => y = JInt(50)

\* The weights as exact twentieths: 0.25 = 5/20, 0.2 = 4/20, 0.15 = 3/20.
Twentieths == [data_accuracy |-> 5, model_efficiency |-> 4, problem_solving |-> 4,
               logical_structure |-> 4, risk_profile |-> 3]

RECURSIVE ExactTwentieths(_, _)
ExactTwentieths(m, n) ==
    IF n = 0 THEN 0
    ELSE ExactTwentieths(m, n - 1) + Twentieths[Metrics[n]] * m[Metrics[n]].v

\* C3: for ratings in [0,100]^5 calculate_overall_score returns a number with
\* one decimal that is a nearest such number to the exact weighted sum
\* 0.25*da + 0.2*me + 0.2*ps + 0.2*ls + 0.15*rp, lies in [0,100], and is 76.5
\* for 90,70,70,70,80.  (In tenths t and twentieths s: |2t - s| <= 1.)
C3_OverallScore ==
    probe.done /\ probe.fn = "calculate_overall_score" =>
        LET s == ExactTwentieths(probe.arg.ratings.m, Len(Metrics))
        IN  /\ probe.exc = NoExc
            /\ probe.score \in 0..1000
            /\ 2 * probe.score - s \in {-1, 0, 1}
            /\ probe.arg.ratings = ScenarioA => probe.score = 765

\* C3 witness: the score of 90,70,70,70,80 was computed and is 76.5.
C3_Witness ==
    probe.done /\ probe.fn = "calculate_overall_score"
    /\ probe.arg.ratings = ScenarioA /\ probe.score = 765

C5_NoExceptionEscapes ==
    Asked =>
        /\ last.raised = NoExc
        /\ last.ret.some => analysis = last.ret /\ overall_score.some

\* C6: of two successive requests with the same code, the second made less
\* than 3600 seconds after the entry of the first was stored, the second does
\* not run the endpoint and returns what the first returned.
C6_SecondRequestCached ==
    [][ ( /\ requests' = requests + 1
          /\ last.kind \in {"hit", "miss"} /\ last'.kind \in {"hit", "miss"}
          /\ last'.code = last.code
          /\ now < last.stored + 3600 )
        => last'.attempts = 0 /\ last'.ret = last.ret /\ cache' = cache ]_vars

\* C6 witness: a second request, later than the first, was served by the cache.
C6_Witness ==
    /\ last.kind = "hit" /\ last.attempts = 0 /\ last.ret.some
    /\ now > last.stored /\ requests = 2

\* C7: a cache entry is made only by a successful analysis: after a call that
\* ended in failure the cache holds no entry for that code.
C7_OnlySuccessCached ==
    /\ \A c \in Codes : cache[c].present => cache[c].value.some
    /\ last.kind = "miss" /\ ~last.ret.some => ~cache[last.code].present

\* C8: a parsed payload that lacks one of description, pros, cons, ratings,
\* risk_profile_classification makes the call return a failure value, produce
\* no result, and run the endpoint once only.
C8_IncompleteFails ==
    SawObject /\ Seen.doc.obj.fields # PromptFields =>
        /\ ~last.ret.some
        /\ last.exc = "ValueError"
        /\ last.raised = NoExc
        /\ last.attempts = 1

\* C8 witness: a payload without ratings was parsed and the call failed.
C8_Witness ==
    /\ SawObject /\ "ratings" \notin Seen.doc.obj.fields
    /\ ~last.ret.some /\ last.attempts = 1

\* The text holds a JSON document with prose or a fence around it.
Wrapped(tokens) ==
    /\ \E i \in 1..Len(tokens) : tokens[i] = "doc"
    /\ \E i \in 1..Len(tokens) : tokens[i] \in {"prose", "fence_open", "fence_close"}

SawText == last.kind = "miss" /\ Seen.curl = "ok" /\ Seen.stdout = "response"

C10_SessionConsistent ==
    analysis.some =>
        /\ overall_score.some
        /\ calculate_overall_score(analysis.val.ratings, pySum).exc = NoExc
        /\ overall_score.v = calculate_overall_score(analysis.val.ratings, pySum).v

====
